---- MODULE Spec2Model ----
(***************************************************************************)
(* noSelfAssign (biome_js_analyze, lint/correctness/no_self_assign.rs).    *)
(*                                                                         *)
(* The rule is run on one JsAssignmentExpression.  Its two operands are    *)
(* classified into an AnyAssignmentLike, a SameIdentifiers iterator walks  *)
(* it with a queue of suspended assignment-likes, and every IdentifiersLike*)
(* pair it yields whose two tokens have the same text becomes a signal.    *)
(*                                                                         *)
(* Syntax nodes are records with a `kind` (the node type), their children  *)
(* and a `range`: the node's place in the assignment expression, written   *)
(* as the path from the operand root (0 = left operand, 1 = right operand).*)
(* A child lost to parse-error recovery is Missing (a SyntaxResult Err),   *)
(* an absent optional child or a Rust Option::None is Nil.                 *)
(*                                                                         *)
(* Spec is one invocation of the rule, FairSpec the same run to its end,   *)
(* InterleavedSpec several invocations whose steps are interleaved: the    *)
(* variables hold the invocation that is executing, `suspended` the others.*)
(***************************************************************************)
EXTENDS Integers, Sequences, FiniteSets, TLC

VARIABLES
    assignment,               \* the queried node: [left, right, operator]
    pc,                       \* where the rule is: "run", "next", "loop", "done", "reported"
    try_result,               \* what AnyAssignmentLike::try_from returned in run: "NotCalled", "Ok", "Err"
    current_assignment_like,  \* SameIdentifiers::current_assignment_like
    assignment_queue,         \* SameIdentifiers::assignment_queue
    result,                   \* the signals (run's `result` vector)
    diagnostics,              \* the diagnostics built from the signals
    running,                  \* which invocation of the rule the variables above belong to
    suspended                 \* the other invocations' own variables, while they are not scheduled

vars == <<assignment, pc, try_result, current_assignment_like, assignment_queue, result,
          diagnostics, running, suspended>>

\* ------------------------------------------------------------------ bounds

\* Most elements of an array or object operand whose two sides are built slot by slot.
MaxLen == 3

\* Most elements of an array or object operand whose two sides are built independently.
MaxFlat == 2

\* Most accesses of a member chain operand.
MaxChain == 2

\* Deepest nesting of arrays in an operand.
MaxDepth == 3

\* Most invocations of the rule in flight at the same time.
MaxInvocations == 2

\* ------------------------------------------------------------ syntax nodes

Missing == [kind |-> "Missing"]

Nil == [kind |-> "Nil"]

Err == [kind |-> "Err"]

Token(kind, text) == [kind |-> kind, text |-> text]

IdentToken(t) == Token("IDENT", <<t>>)

JsIdentifierAssignment(t) ==
    [kind |-> "JsIdentifierAssignment", name_token |-> IdentToken(t), range |-> <<>>]

JsReferenceIdentifier(t) ==
    [kind |-> "JsReferenceIdentifier", value_token |-> IdentToken(t), range |-> <<>>]

JsIdentifierExpression(t) ==
    [kind |-> "JsIdentifierExpression", name |-> JsReferenceIdentifier(t), range |-> <<>>]

JsName(t) == [kind |-> "JsName", value_token |-> IdentToken(t), range |-> <<>>]

JsPrivateName(t) == [kind |-> "JsPrivateName", value_token |-> IdentToken(t), range |-> <<>>]

JsStringLiteralExpression(text) ==
    [kind |-> "JsStringLiteralExpression",
     value_token |-> Token("JS_STRING_LITERAL", text), range |-> <<>>]

JsNumberLiteralExpression(text) ==
    [kind |-> "JsNumberLiteralExpression",
     value_token |-> Token("JS_NUMBER_LITERAL", text), range |-> <<>>]

JsBooleanLiteralExpression(t) ==
    [kind |-> "JsBooleanLiteralExpression",
     value_token |-> Token("TRUE_KW", <<t>>), range |-> <<>>]

JsThisExpression == [kind |-> "JsThisExpression", range |-> <<>>]

\* f(): like `this`, an expression the walker cannot walk into.
JsCallExpression == [kind |-> "JsCallExpression", range |-> <<>>]

\* b + 1: an expression that is neither an identifier nor a literal.
JsBinaryExpression == [kind |-> "JsBinaryExpression", range |-> <<>>]

JsArrayHole == [kind |-> "JsArrayHole", range |-> <<>>]

JsStaticMemberAssignment(object, member) ==
    [kind |-> "JsStaticMemberAssignment", object |-> object, member |-> member, range |-> <<>>]

JsStaticMemberExpression(object, member) ==
    [kind |-> "JsStaticMemberExpression", object |-> object, member |-> member, range |-> <<>>]

JsComputedMemberAssignment(object, member) ==
    [kind |-> "JsComputedMemberAssignment", object |-> object, member |-> member, range |-> <<>>]

JsComputedMemberExpression(object, member) ==
    [kind |-> "JsComputedMemberExpression", object |-> object, member |-> member, range |-> <<>>]

JsArrayAssignmentPattern(elements) ==
    [kind |-> "JsArrayAssignmentPattern", elements |-> elements, range |-> <<>>]

JsArrayAssignmentPatternElement(pattern, init) ==
    [kind |-> "JsArrayAssignmentPatternElement", pattern |-> pattern, init |-> init,
     range |-> <<>>]

JsArrayExpression(elements) ==
    [kind |-> "JsArrayExpression", elements |-> elements, range |-> <<>>]

JsObjectAssignmentPattern(properties) ==
    [kind |-> "JsObjectAssignmentPattern", properties |-> properties, range |-> <<>>]

JsObjectAssignmentPatternProperty(member, pattern) ==
    [kind |-> "JsObjectAssignmentPatternProperty", member |-> member, pattern |-> pattern,
     range |-> <<>>]

JsObjectAssignmentPatternShorthandProperty(t) ==
    [kind |-> "JsObjectAssignmentPatternShorthandProperty",
     identifier |-> JsIdentifierAssignment(t), range |-> <<>>]

JsObjectExpression(members) ==
    [kind |-> "JsObjectExpression", members |-> members, range |-> <<>>]

JsPropertyObjectMember(name, value) ==
    [kind |-> "JsPropertyObjectMember", name |-> name, value |-> value, range |-> <<>>]

JsShorthandPropertyObjectMember(t) ==
    [kind |-> "JsShorthandPropertyObjectMember", name |-> JsReferenceIdentifier(t),
     range |-> <<>>]

AnyJsLiteralExpression ==
    {"JsStringLiteralExpression", "JsNumberLiteralExpression", "JsBooleanLiteralExpression"}

\* The single children of a node, in source order, and its child lists.
ChildFields == <<"object", "member", "pattern", "init", "identifier", "name", "value">>

ListFields == {"elements", "properties", "members"}

RECURSIVE WithRanges(_, _)
\* The node with every node of its subtree given its range.
WithRanges(node, path) ==
    IF "range" \notin DOMAIN node THEN node
    ELSE [f \in DOMAIN node |->
            IF f = "range" THEN path
            ELSE IF f \in ListFields
                 THEN [i \in 1..Len(node[f]) |-> WithRanges(node[f][i], Append(path, i))]
            ELSE IF \E k \in DOMAIN ChildFields : ChildFields[k] = f
                 THEN WithRanges(node[f],
                                 Append(path, CHOOSE k \in DOMAIN ChildFields : ChildFields[k] = f))
            ELSE node[f]]

\* ------------------------------------------------- Leaf Equality Comparator

\* biome_js_syntax::inner_string_text: the trimmed token text, a string literal's
\* without its two delimiters.
inner_string_text(token) ==
    IF token.kind = "JS_STRING_LITERAL"
    THEN SubSeq(token.text, 2, Len(token.text) - 1)
    ELSE token.text

IdentifiersLike(variant, left, right) ==
    [kind |-> "IdentifiersLike", variant |-> variant, left |-> left, right |-> right]

\* The two tokens with_same_identifiers compares, Nil where it returns None early.
ValueTokens(ids) ==
    LET left_value  == IF ids.variant = "IdentifierAndReference"
                       THEN ids.left.name_token ELSE ids.left.value_token
        right_value == ids.right.value_token
        tokens      == IF left_value = Missing \/ right_value = Missing
                       THEN Nil ELSE [left |-> left_value, right |-> right_value]
    IN  IF ids.variant # "Literal" THEN tokens
        ELSE IF /\ ids.left.kind = "JsStringLiteralExpression"
                /\ ids.right.kind = "JsStringLiteralExpression" THEN tokens
        ELSE IF /\ ids.left.kind = "JsNumberLiteralExpression"
                /\ ids.right.kind = "JsNumberLiteralExpression" THEN tokens
        ELSE Nil

\* Mutant of with_same_identifiers: literals of any two kinds are compared by text.
with_same_identifiers_any_literal(ids) ==
    LET left_value  == IF ids.variant = "IdentifierAndReference"
                       THEN ids.left.name_token ELSE ids.left.value_token
        right_value == ids.right.value_token
    IN  /\ left_value # Missing
        /\ right_value # Missing
        /\ inner_string_text(left_value) = inner_string_text(right_value)

\* TRUE for Some(()), FALSE for None.
with_same_identifiers(ids) ==
    LET tokens == ValueTokens(ids)
    IN  /\ tokens # Nil
        /\ inner_string_text(tokens.left) = inner_string_text(tokens.right)

\* TryFrom<(AnyNameLike, AnyNameLike)> for IdentifiersLike; Nil for Err(()).
IdentifiersLike_try_from(left, right) ==
    IF left.kind = "JsName" /\ right.kind = "JsName"
    THEN IdentifiersLike("Name", left, right)
    ELSE IF left.kind = "JsPrivateName" /\ right.kind = "JsPrivateName"
    THEN IdentifiersLike("PrivateName", left, right)
    ELSE IF left.kind = "JsReferenceIdentifier" /\ right.kind = "JsReferenceIdentifier"
    THEN IdentifiersLike("References", left, right)
    ELSE IF left.kind \in AnyJsLiteralExpression /\ right.kind \in AnyJsLiteralExpression
    THEN IdentifiersLike("Literal", left, right)
    ELSE Nil

left_range(ids) == ids.left.range

\* Mutant of right_range: the range of the target side.
right_range_of_left(ids) == ids.left.range

right_range(ids) == ids.right.range

\* IdentifiersLike::name: the right node's token, Nil when it is missing.
name(ids) == IF ids.right.value_token = Missing THEN Nil ELSE ids.right.value_token

\* NoSelfAssign::diagnostic: Nil for None.
diagnostic(ids) ==
    IF name(ids) = Nil THEN Nil
    ELSE [kind |-> "RuleDiagnostic", span |-> right_range(ids),
          message |-> name(ids).text, detail |-> left_range(ids)]

\* -------------------------------------------------------- Member-Chain Walker

\* The member of a computed access as an AnyNameLike: Err unless it is an
\* identifier or a literal (from_computed_member_assignment / _expression).
ComputedSourceMember(member) ==
    IF member = Missing THEN Err
    ELSE IF member.kind = "JsIdentifierExpression"
    THEN (IF member.name = Missing THEN Err ELSE member.name)
    ELSE IF member.kind \in AnyJsLiteralExpression THEN member
    ELSE Err

Walker(source_member, source_object) ==
    IF source_member = Err \/ source_member = Missing \/ source_object = Missing THEN Err
    ELSE [kind |-> "AnyJsAssignmentExpressionLikeIterator",
          source_member |-> source_member, source_object |-> source_object,
          current_member_expression |-> Nil, drained |-> FALSE]

from_static_member_expression(source) == Walker(source.member, source.object)

from_static_member_assignment(source) == Walker(source.member, source.object)

from_computed_member_assignment(source) ==
    Walker(ComputedSourceMember(source.member), source.object)

from_computed_member_expression(source) ==
    Walker(ComputedSourceMember(source.member), source.object)

\* AnyAssignmentExpressionLike::member, Nil for None.
AnyAssignmentExpressionLike_member(node) ==
    IF node.member = Missing THEN Nil
    ELSE IF node.kind = "JsStaticMemberExpression" THEN node.member
    ELSE IF node.member.kind = "JsIdentifierExpression"
    THEN (IF node.member.name = Missing THEN Nil ELSE node.member.name)
    ELSE IF node.member.kind \in AnyJsLiteralExpression THEN node.member
    ELSE Nil

\* AnyAssignmentExpressionLike::object, Nil for None.
AnyAssignmentExpressionLike_object(node) ==
    IF node.object = Missing THEN Nil ELSE node.object

\* Mutant of Walker_next: an object of any other form ends the chain as an
\* identifier does, and stands for the terminal reference.
Walker_next_any_base(it) ==
    IF it.drained THEN [item |-> Nil, it |-> it]
    ELSE
    LET current == it.current_member_expression
        member  == IF current # Nil
                   THEN AnyAssignmentExpressionLike_member(current) ELSE it.source_member
        object  == IF current # Nil
                   THEN AnyAssignmentExpressionLike_object(current) ELSE it.source_object
    IN  IF member = Nil \/ object = Nil THEN [item |-> Nil, it |-> it]
        ELSE IF object.kind \in {"JsStaticMemberExpression", "JsComputedMemberExpression"}
        THEN [item |-> [name |-> member, reference |-> Nil],
              it   |-> [it EXCEPT !.current_member_expression = object]]
        ELSE IF object.kind = "JsIdentifierExpression"
        THEN [item |-> IF object.name = Missing THEN Nil
                       ELSE [name |-> member, reference |-> object.name],
              it   |-> [it EXCEPT !.drained = TRUE]]
        ELSE [item |-> [name |-> member,
                        reference |-> [kind |-> "JsReferenceIdentifier",
                                       value_token |-> IdentToken(object.kind),
                                       range |-> object.range]],
              it   |-> [it EXCEPT !.drained = TRUE]]

\* Iterator::next of the walker: the item (Nil for None) and the walker after it.
Walker_next(it) ==
    IF it.drained THEN [item |-> Nil, it |-> it]
    ELSE
    LET current == it.current_member_expression
        member  == IF current # Nil
                   THEN AnyAssignmentExpressionLike_member(current) ELSE it.source_member
        object  == IF current # Nil
                   THEN AnyAssignmentExpressionLike_object(current) ELSE it.source_object
    IN  IF member = Nil \/ object = Nil THEN [item |-> Nil, it |-> it]
        ELSE IF object.kind \in {"JsStaticMemberExpression", "JsComputedMemberExpression"}
        THEN [item |-> [name |-> member, reference |-> Nil],
              it   |-> [it EXCEPT !.current_member_expression = object]]
        ELSE IF object.kind = "JsIdentifierExpression"
        THEN [item |-> IF object.name = Missing THEN Nil
                       ELSE [name |-> member, reference |-> object.name],
              it   |-> [it EXCEPT !.drained = TRUE]]
        ELSE [item |-> Nil, it |-> it]

\* ------------------------------------------------------------ Shape Classifier

NoneLike == [kind |-> "None"]

Identifiers(ids) == [kind |-> "Identifiers", ids |-> ids]

Arrays(left, right) == [kind |-> "Arrays", left |-> left, right |-> right]

Object(left, right) == [kind |-> "Object", left |-> left, right |-> right]

StaticExpression(left, right) ==
    IF left = Err \/ right = Err THEN Err
    ELSE [kind |-> "StaticExpression", left |-> left, right |-> right]

\* Mutant of has_sub_structures: a member chain counts as a sub structure too.
has_sub_structures_with_chains(like) ==
    like.kind \in {"Arrays", "Object", "StaticExpression"}

has_sub_structures(like) == like.kind \in {"Arrays", "Object"}

\* TryFrom<(AnyJsAssignmentPattern, AnyJsExpression)> for AnyAssignmentLike.
AnyAssignmentLike_try_from(left, right) ==
    IF left.kind = "JsArrayAssignmentPattern" /\ right.kind = "JsArrayExpression"
    THEN Arrays(left.elements, right.elements)
    ELSE IF left.kind = "JsObjectAssignmentPattern" /\ right.kind = "JsObjectExpression"
    THEN Object(left.properties, right.members)
    ELSE IF left.kind = "JsIdentifierAssignment" /\ right.kind = "JsIdentifierExpression"
    THEN (IF right.name = Missing THEN Err
          ELSE Identifiers(IdentifiersLike("IdentifierAndReference", left, right.name)))
    ELSE IF left.kind = "JsStaticMemberAssignment" /\ right.kind = "JsStaticMemberExpression"
    THEN StaticExpression(from_static_member_assignment(left),
                          from_static_member_expression(right))
    ELSE IF /\ left.kind = "JsComputedMemberAssignment"
            /\ right.kind = "JsComputedMemberExpression"
    THEN StaticExpression(from_computed_member_assignment(left),
                          from_computed_member_expression(right))
    ELSE NoneLike

\* -------------------------------------------------- Composite Traversal Driver

\* AstSeparatedListNodesIterator::next on a list iterator (the elements left).
List_next(it) ==
    IF it = <<>> THEN [item |-> Nil, it |-> it] ELSE [item |-> Head(it), it |-> Tail(it)]

\* Mutant of next_array_assignment: the right element is read but not consumed.
next_array_assignment_right_peeked(left, right) ==
    LET l   == List_next(left)
        r   == [item |-> List_next(right).item, it |-> right]
        ret ==
            IF l.item = Nil \/ r.item = Nil THEN NoneLike
            ELSE IF l.item = Missing \/ r.item = Missing THEN Nil
            ELSE IF /\ l.item.kind = "JsArrayAssignmentPatternElement"
                    /\ r.item.kind \notin {"JsArrayHole", "JsSpread"}
            THEN IF l.item.init # Nil THEN NoneLike
                 ELSE IF l.item.pattern = Missing THEN Nil
                 ELSE LET new_assignment_like ==
                              AnyAssignmentLike_try_from(l.item.pattern, r.item)
                      IN  IF new_assignment_like = Err THEN Nil ELSE new_assignment_like
            ELSE NoneLike
    IN  [ret |-> ret, left |-> l.it, right |-> r.it]

\* Mutant of next_array_assignment: the default initializer is not looked at.
next_array_assignment_init_ignored(left, right) ==
    LET l   == List_next(left)
        r   == List_next(right)
        ret ==
            IF l.item = Nil \/ r.item = Nil THEN NoneLike
            ELSE IF l.item = Missing \/ r.item = Missing THEN Nil
            ELSE IF /\ l.item.kind = "JsArrayAssignmentPatternElement"
                    /\ r.item.kind \notin {"JsArrayHole", "JsSpread"}
            THEN IF l.item.pattern = Missing THEN Nil
                 ELSE LET new_assignment_like ==
                              AnyAssignmentLike_try_from(l.item.pattern, r.item)
                      IN  IF new_assignment_like = Err THEN Nil ELSE new_assignment_like
            ELSE NoneLike
    IN  [ret |-> ret, left |-> l.it, right |-> r.it]

\* SameIdentifiers::next_array_assignment: the returned Option (Nil for None)
\* and the two iterators after the call.
next_array_assignment(left, right) ==
    LET l   == List_next(left)
        r   == List_next(right)
        ret ==
            IF l.item = Nil \/ r.item = Nil THEN NoneLike
            ELSE IF l.item = Missing \/ r.item = Missing THEN Nil
            ELSE IF /\ l.item.kind = "JsArrayAssignmentPatternElement"
                    /\ r.item.kind \notin {"JsArrayHole", "JsSpread"}
            THEN IF l.item.init # Nil THEN NoneLike
                 ELSE IF l.item.pattern = Missing THEN Nil
                 ELSE LET new_assignment_like ==
                              AnyAssignmentLike_try_from(l.item.pattern, r.item)
                      IN  IF new_assignment_like = Err THEN Nil ELSE new_assignment_like
            ELSE NoneLike
    IN  [ret |-> ret, left |-> l.it, right |-> r.it]

\* Mutant of next_object_assignment: a keyed slot pairs the two keys, not the values.
next_object_assignment_on_keys(left, right) ==
    LET l   == List_next(left)
        r   == List_next(right)
        ret ==
            IF l.item = Nil \/ r.item = Nil THEN NoneLike
            ELSE IF l.item = Missing \/ r.item = Missing THEN Nil
            ELSE IF /\ l.item.kind = "JsObjectAssignmentPatternShorthandProperty"
                    /\ r.item.kind = "JsShorthandPropertyObjectMember"
            THEN IF l.item.identifier = Missing \/ r.item.name = Missing THEN Nil
                 ELSE Identifiers(IdentifiersLike("IdentifierAndReference",
                                                  l.item.identifier, r.item.name))
            ELSE IF /\ l.item.kind = "JsObjectAssignmentPatternProperty"
                    /\ r.item.kind = "JsPropertyObjectMember"
            THEN IF l.item.member = Missing \/ r.item.name = Missing THEN Nil
                 ELSE Identifiers(IdentifiersLike("Name", l.item.member, r.item.name))
            ELSE NoneLike
    IN  [ret |-> ret, left |-> l.it, right |-> r.it]

\* SameIdentifiers::next_object_assignment.
next_object_assignment(left, right) ==
    LET l   == List_next(left)
        r   == List_next(right)
        ret ==
            IF l.item = Nil \/ r.item = Nil THEN NoneLike
            ELSE IF l.item = Missing \/ r.item = Missing THEN Nil
            ELSE IF /\ l.item.kind = "JsObjectAssignmentPatternShorthandProperty"
                    /\ r.item.kind = "JsShorthandPropertyObjectMember"
            THEN IF l.item.identifier = Missing \/ r.item.name = Missing THEN Nil
                 ELSE Identifiers(IdentifiersLike("IdentifierAndReference",
                                                  l.item.identifier, r.item.name))
            ELSE IF /\ l.item.kind = "JsObjectAssignmentPatternProperty"
                    /\ r.item.kind = "JsPropertyObjectMember"
            THEN IF l.item.pattern = Missing \/ r.item.value = Missing THEN Nil
                 ELSE LET lp == l.item.pattern
                          rv == r.item.value
                      IN  IF /\ lp.kind = "JsIdentifierAssignment"
                             /\ rv.kind = "JsIdentifierExpression"
                          THEN IF rv.name = Missing THEN Nil
                               ELSE Identifiers(IdentifiersLike("IdentifierAndReference",
                                                                lp, rv.name))
                          ELSE IF /\ lp.kind = "JsArrayAssignmentPattern"
                                  /\ rv.kind = "JsArrayExpression"
                          THEN Arrays(lp.elements, rv.elements)
                          ELSE IF /\ lp.kind = "JsObjectAssignmentPattern"
                                  /\ rv.kind = "JsObjectExpression"
                          THEN Object(lp.properties, rv.members)
                          ELSE NoneLike
            ELSE NoneLike
    IN  [ret |-> ret, left |-> l.it, right |-> r.it]

RECURSIVE next_static_expression_any_reference(_, _)
\* Mutant of next_static_expression: the two terminal references are not compared.
next_static_expression_any_reference(left, right) ==
    LET l    == Walker_next(left)
        r    == Walker_next(right)
        none == [ret |-> NoneLike, left |-> l.it, right |-> r.it]
    IN  IF l.item = Nil \/ r.item = Nil THEN none
        ELSE
        LET identifier_like == IdentifiersLike_try_from(l.item.name, r.item.name)
        IN  IF identifier_like = Nil THEN none
            ELSE IF ~with_same_identifiers(identifier_like) THEN none
            ELSE IF l.item.reference # Nil /\ r.item.reference # Nil
            THEN LET source_identifier ==
                         IdentifiersLike_try_from(l.it.source_member, r.it.source_member)
                 IN  [ret   |-> IF source_identifier = Nil THEN Nil
                                ELSE Identifiers(source_identifier),
                      left  |-> l.it, right |-> r.it]
            ELSE CHOOSE next \in {next_static_expression_any_reference(lit, rit) :
                                      lit \in {l.it}, rit \in {r.it}} : TRUE

RECURSIVE next_static_expression_innermost_key(_, _)
\* Mutant of next_static_expression: the pair yielded is the pair of keys of the
\* level the references were found at.
next_static_expression_innermost_key(left, right) ==
    LET l    == Walker_next(left)
        r    == Walker_next(right)
        none == [ret |-> NoneLike, left |-> l.it, right |-> r.it]
    IN  IF l.item = Nil \/ r.item = Nil THEN none
        ELSE
        LET identifier_like == IdentifiersLike_try_from(l.item.name, r.item.name)
        IN  IF identifier_like = Nil THEN none
            ELSE IF ~with_same_identifiers(identifier_like) THEN none
            ELSE IF l.item.reference # Nil /\ r.item.reference # Nil
            THEN IF with_same_identifiers(
                        IdentifiersLike("References", l.item.reference, r.item.reference))
                 THEN [ret |-> Identifiers(identifier_like), left |-> l.it, right |-> r.it]
                 ELSE none
            ELSE CHOOSE next \in {next_static_expression_innermost_key(lit, rit) :
                                      lit \in {l.it}, rit \in {r.it}} : TRUE

RECURSIVE next_static_expression(_, _)
\* SameIdentifiers::next_static_expression on the two walkers.
next_static_expression(left, right) ==
    LET l    == Walker_next(left)
        r    == Walker_next(right)
        none == [ret |-> NoneLike, left |-> l.it, right |-> r.it]
    IN  IF l.item = Nil \/ r.item = Nil THEN none
        ELSE
        LET identifier_like == IdentifiersLike_try_from(l.item.name, r.item.name)
        IN  IF identifier_like = Nil THEN none
            ELSE IF ~with_same_identifiers(identifier_like) THEN none
            ELSE IF l.item.reference # Nil /\ r.item.reference # Nil
            THEN IF with_same_identifiers(
                        IdentifiersLike("References", l.item.reference, r.item.reference))
                 THEN LET source_identifier ==
                              IdentifiersLike_try_from(l.it.source_member, r.it.source_member)
                      IN  [ret   |-> IF source_identifier = Nil THEN Nil
                                     ELSE Identifiers(source_identifier),
                           left  |-> l.it, right |-> r.it]
                 ELSE none
            \* the recursive call, on the two walkers as they are now
            ELSE CHOOSE next \in {next_static_expression(lit, rit) :
                                      lit \in {l.it}, rit \in {r.it}} : TRUE

RECURSIVE next_static_expression_frames(_, _)
\* The frames of next_static_expression on the call stack when a call of it on the
\* two walkers is at its deepest: one, and those of the call it makes on itself.
next_static_expression_frames(left, right) ==
    LET l == Walker_next(left)
        r == Walker_next(right)
    IN  IF l.item = Nil \/ r.item = Nil THEN 1
        ELSE
        LET identifier_like == IdentifiersLike_try_from(l.item.name, r.item.name)
        IN  IF identifier_like = Nil THEN 1
            ELSE IF ~with_same_identifiers(identifier_like) THEN 1
            ELSE IF l.item.reference # Nil /\ r.item.reference # Nil THEN 1
            ELSE 1 + CHOOSE frames \in {next_static_expression_frames(lit, rit) :
                                           lit \in {l.it}, rit \in {r.it}} : TRUE

\* Mutant of next_assignment_like: a chain shape is taken out of the iterator
\* when it is resolved, as a leaf shape is.
next_assignment_like_taking_chain(current, queue) ==
    IF current.kind = "Arrays"
    THEN LET n   == next_array_assignment(current.left, current.right)
             cur == Arrays(n.left, n.right)
         IN  [ret |-> n.ret, current |-> cur,
              queue |-> IF n.ret # Nil /\ has_sub_structures(n.ret)
                        THEN Append(queue, cur) ELSE queue]
    ELSE IF current.kind = "Object"
    THEN LET n   == next_object_assignment(current.left, current.right)
             cur == Object(n.left, n.right)
         IN  [ret |-> n.ret, current |-> cur,
              queue |-> IF n.ret # Nil /\ has_sub_structures(n.ret)
                        THEN Append(queue, cur) ELSE queue]
    ELSE IF current.kind = "StaticExpression"
    THEN LET n == next_static_expression(current.left, current.right)
         IN  [ret |-> n.ret, current |-> NoneLike, queue |-> queue]
    ELSE [ret |-> current, current |-> NoneLike, queue |-> queue]

\* SameIdentifiers::next_assignment_like: the returned Option (Nil for None) and
\* the iterator's two fields after the call.
next_assignment_like(current, queue) ==
    IF current.kind = "Arrays"
    THEN LET n   == next_array_assignment(current.left, current.right)
             cur == Arrays(n.left, n.right)
         IN  [ret |-> n.ret, current |-> cur,
              queue |-> IF n.ret # Nil /\ has_sub_structures(n.ret)
                        THEN Append(queue, cur) ELSE queue]
    ELSE IF current.kind = "Object"
    THEN LET n   == next_object_assignment(current.left, current.right)
             cur == Object(n.left, n.right)
         IN  [ret |-> n.ret, current |-> cur,
              queue |-> IF n.ret # Nil /\ has_sub_structures(n.ret)
                        THEN Append(queue, cur) ELSE queue]
    ELSE IF current.kind = "StaticExpression"
    THEN LET n == next_static_expression(current.left, current.right)
         IN  [ret |-> n.ret, current |-> StaticExpression(n.left, n.right), queue |-> queue]
    ELSE [ret |-> current, current |-> NoneLike, queue |-> queue]

RECURSIVE SameIdentifiers_loop(_, _)
\* The loop of SameIdentifiers::next run until it returns: the item returned (Nil
\* for None) and the iterator's two fields after the call.
SameIdentifiers_loop(current, queue) ==
    LET n == next_assignment_like(current, queue)
    IN  IF n.ret = Nil
        THEN [item |-> Nil, current |-> n.current, queue |-> n.queue]
        ELSE IF n.ret.kind = "None"
        THEN IF n.queue # <<>>
             THEN SameIdentifiers_loop(Head(n.queue), Tail(n.queue))
             ELSE [item |-> Nil, current |-> n.current, queue |-> n.queue]
        ELSE IF n.ret.kind = "Identifiers"
        THEN [item |-> n.ret.ids, current |-> n.current, queue |-> n.queue]
        ELSE SameIdentifiers_loop(n.ret, Append(n.queue, n.current))

\* One call of SameIdentifiers::next, as a consumer of the iterator sees it.
SameIdentifiers_next(current, queue) ==
    IF current.kind = "None"
    THEN [item |-> Nil, current |-> current, queue |-> queue]
    ELSE SameIdentifiers_loop(current, queue)

RECURSIVE for_identifier_like(_, _, _)
\* The for loop of compare_assignment_like over the iterator, run to its end: the
\* vector it leaves in incorrect_identifiers.
for_identifier_like(current, queue, incorrect_identifiers) ==
    LET n == SameIdentifiers_next(current, queue)
    IN  IF n.item = Nil THEN incorrect_identifiers
        ELSE for_identifier_like(n.current, n.queue,
                                 IF with_same_identifiers(n.item)
                                 THEN Append(incorrect_identifiers, n.item)
                                 ELSE incorrect_identifiers)

\* compare_assignment_like called with an empty vector.
compare_assignment_like(any_assignment_like) ==
    for_identifier_like(any_assignment_like, <<>>, <<>>)

\* NoSelfAssign::run as a function of the queried node: the signals it returns.
run(node) ==
    IF /\ node.operator \in {"Assign", "LogicalAndAssign", "LogicalOrAssign",
                             "NullishCoalescingAssign"}
       /\ node.left # Missing
       /\ node.right # Missing
    THEN LET pair == AnyAssignmentLike_try_from(node.left, node.right)
         IN  IF pair = Err THEN <<>> ELSE compare_assignment_like(pair)
    ELSE <<>>

\* ------------------------------------------------ the assignments examined

\* Mutant of QualifyingOperators: the filter also lets &= through.
QualifyingOperatorsWithBitwise ==
    {"Assign", "LogicalAndAssign", "LogicalOrAssign", "NullishCoalescingAssign",
     "BitwiseAndAssign"}

QualifyingOperators ==
    {"Assign", "LogicalAndAssign", "LogicalOrAssign", "NullishCoalescingAssign"}

\* a &= a, a += a: operators run does not match.
OtherOperators == {"BitwiseAndAssign", "AddAssign"}

\* node.operator() is an Err: the operator token was lost to error recovery.
MissingOperator == "Missing"

Names == {"a", "b"}

SeqsUpTo(S, n) == UNION {[1..k -> S] : k \in 0..n}

SeqsFromTo(S, m, n) == UNION {[1..k -> S] : k \in m..n}

Pair(left, right) == [left |-> left, right |-> right]

Lefts(pairs) == [i \in 1..Len(pairs) |-> pairs[i].left]

Rights(pairs) == [i \in 1..Len(pairs) |-> pairs[i].right]

Element(pattern) == JsArrayAssignmentPatternElement(pattern, Nil)

ElementWithInit(pattern) ==
    JsArrayAssignmentPatternElement(pattern, JsNumberLiteralExpression(<<"1">>))

Key(t) == [kind |-> "JsLiteralMemberName", value_token |-> IdentToken(t), range |-> <<>>]

\* x[b + 1]
UnsupportedComputedAssignment ==
    JsComputedMemberAssignment(JsIdentifierExpression("x"), JsBinaryExpression)

UnsupportedComputedExpression ==
    JsComputedMemberExpression(JsIdentifierExpression("x"), JsBinaryExpression)

\* a = a, a = b, a = 1, a = this, a.b = a, operands lost to error recovery, ...
RootPairs ==
    LET lefts  == {JsIdentifierAssignment(t) : t \in Names}
                  \cup {Missing,
                        JsStaticMemberAssignment(JsIdentifierExpression("a"), JsName("b")),
                        UnsupportedComputedAssignment,
                        JsComputedMemberAssignment(Missing, JsIdentifierExpression("b")),
                        JsArrayAssignmentPattern(<<Element(JsIdentifierAssignment("a"))>>)}
        rights == {JsIdentifierExpression(t) : t \in Names}
                  \cup {Missing,
                        [kind |-> "JsIdentifierExpression", name |-> Missing, range |-> <<>>],
                        JsNumberLiteralExpression(<<"1">>), JsThisExpression,
                        JsStaticMemberExpression(JsIdentifierExpression("a"), JsName("b")),
                        UnsupportedComputedExpression,
                        JsComputedMemberExpression(JsIdentifierExpression("a"),
                                                   JsIdentifierExpression("b")),
                        JsArrayExpression(<<JsIdentifierExpression("a")>>)}
    IN  {Pair(l, r) : l \in lefts, r \in rights}

\* [a, b] = [b, a], [a = 1] = [a], [a] = [a, b], [a] = [1], ...
FlatArrayPairs ==
    LET lefts  == {Element(JsIdentifierAssignment(t)) : t \in Names}
                  \cup {ElementWithInit(JsIdentifierAssignment("a"))}
        rights == {JsIdentifierExpression(t) : t \in Names}
                  \cup {JsNumberLiteralExpression(<<"1">>)}
    IN  {Pair(JsArrayAssignmentPattern(l), JsArrayExpression(r)) :
            l \in SeqsUpTo(lefts, MaxFlat), r \in SeqsUpTo(rights, MaxFlat)}

\* ({a: b} = {a: b}), ({a: b} = {c: b}), ({b} = {b}), ({a: b, b} = {a: a}), ...
FlatObjectPairs ==
    LET lefts  == {JsObjectAssignmentPatternProperty(Key("a"), JsIdentifierAssignment("b")),
                   JsObjectAssignmentPatternShorthandProperty("b")}
        rights == {JsPropertyObjectMember(Key("a"), JsIdentifierExpression("b")),
                   JsPropertyObjectMember(Key("c"), JsIdentifierExpression("b")),
                   JsPropertyObjectMember(Key("a"), JsIdentifierExpression("a")),
                   JsShorthandPropertyObjectMember("b"),
                   JsShorthandPropertyObjectMember("a")}
    IN  {Pair(JsObjectAssignmentPattern(l), JsObjectExpression(r)) :
            l \in SeqsUpTo(lefts, MaxFlat), r \in SeqsUpTo(rights, MaxFlat)}

\* The operand pairs an array or object slot is built from: a/a, a/b, [a]/[a],
\* {b}/{b}, a.b/a.b, a/1, x[b + 1]/x[b + 1].
SlotPairs ==
    {Pair(JsIdentifierAssignment("a"), JsIdentifierExpression("a")),
     Pair(JsIdentifierAssignment("a"), JsIdentifierExpression("b")),
     Pair(JsArrayAssignmentPattern(<<Element(JsIdentifierAssignment("a"))>>),
          JsArrayExpression(<<JsIdentifierExpression("a")>>)),
     Pair(JsObjectAssignmentPattern(<<JsObjectAssignmentPatternShorthandProperty("b")>>),
          JsObjectExpression(<<JsShorthandPropertyObjectMember("b")>>)),
     Pair(JsStaticMemberAssignment(JsIdentifierExpression("a"), JsName("b")),
          JsStaticMemberExpression(JsIdentifierExpression("a"), JsName("b"))),
     Pair(JsIdentifierAssignment("a"), JsNumberLiteralExpression(<<"1">>)),
     Pair(UnsupportedComputedAssignment, UnsupportedComputedExpression)}

\* [[a], b] = [[a], b], [a, x[b + 1], [a]] = [a, x[b + 1], [a]], [a = 1, a] = [a, a], ...
MixedArrayPairs ==
    LET slots == {Pair(Element(p.left), p.right) : p \in SlotPairs}
                 \cup {Pair(ElementWithInit(JsIdentifierAssignment("a")),
                            JsIdentifierExpression("a"))}
    IN  {Pair(JsArrayAssignmentPattern(Lefts(e)), JsArrayExpression(Rights(e))) :
            e \in SeqsFromTo(slots, 1, MaxLen)}

\* ({a: [a], a: b} = {a: [a], a: b}), ({a: a.b} = {a: a.b}), ({b, a: a} = {a: b, a: a}), ...
MixedObjectPairs ==
    LET slots == {Pair(JsObjectAssignmentPatternProperty(Key("a"), p.left),
                       JsPropertyObjectMember(Key("a"), p.right)) : p \in SlotPairs}
                 \cup {Pair(JsObjectAssignmentPatternShorthandProperty("b"),
                            JsPropertyObjectMember(Key("b"), JsIdentifierExpression("b")))}
    IN  {Pair(JsObjectAssignmentPattern(Lefts(e)), JsObjectExpression(Rights(e))) :
            e \in SeqsFromTo(slots, 1, MaxLen)}

RECURSIVE NestedArrayPairs(_)
\* Arrays nested to the given depth around a/a or a/b, each level with the nested
\* array alone, before a further element or after one: [[[a], a], a] = [[[b], a], a], ...
NestedArrayPairs(depth) ==
    IF depth = 0
    THEN {Pair(JsIdentifierAssignment("a"), JsIdentifierExpression(t)) : t \in Names}
    ELSE LET same   == Pair(JsIdentifierAssignment("a"), JsIdentifierExpression("a"))
             shapes == UNION {{<<inner>>, <<inner, same>>, <<same, inner>>} :
                                 inner \in NestedArrayPairs(depth - 1)}
         IN  {Pair(JsArrayAssignmentPattern([i \in 1..Len(e) |-> Element(e[i].left)]),
                   JsArrayExpression(Rights(e))) : e \in shapes}

Access(computed, member) == [computed |-> computed, member |-> member]

RECURSIVE ChainExpression(_, _)
\* The member expression that applies the accesses, innermost first, to the base.
ChainExpression(base, accesses) ==
    IF accesses = <<>> THEN base
    ELSE LET last   == accesses[Len(accesses)]
             object == ChainExpression(base, SubSeq(accesses, 1, Len(accesses) - 1))
         IN  IF last.computed THEN JsComputedMemberExpression(object, last.member)
             ELSE JsStaticMemberExpression(object, last.member)

\* The same chain as an assignment target.
ChainAssignment(base, accesses) ==
    LET last   == accesses[Len(accesses)]
        object == ChainExpression(base, SubSeq(accesses, 1, Len(accesses) - 1))
    IN  IF last.computed THEN JsComputedMemberAssignment(object, last.member)
        ELSE JsStaticMemberAssignment(object, last.member)

\* .a  .b  .#a
StaticKeys == {JsName("a"), JsName("b"), JsPrivateName("a")}

\* [a]  [b]  ['a']  ["a"]  ['b']  [1]  [1.0]  ['1']  [true]  [b + 1]
ComputedKeys ==
    {JsIdentifierExpression(t) : t \in Names}
    \cup {JsStringLiteralExpression(<<"'", "a", "'">>),
          JsStringLiteralExpression(<<"\"", "a", "\"">>),
          JsStringLiteralExpression(<<"'", "b", "'">>),
          JsNumberLiteralExpression(<<"1">>),
          JsNumberLiteralExpression(<<"1", ".", "0">>),
          JsStringLiteralExpression(<<"'", "1", "'">>),
          JsBooleanLiteralExpression("true"),
          JsBinaryExpression}

AnyAccess ==
    {Access(FALSE, k) : k \in StaticKeys} \cup {Access(TRUE, k) : k \in ComputedKeys}

\* One access on each side, with every key: a.b = a.b, a['a'] = a["a"], a[1] = a[1.0],
\* this.a = this.a, a[b + 1] = a[b], ...
SingleAccessPairs ==
    {Pair(ChainAssignment(lb, <<l>>), ChainExpression(rb, <<r>>)) :
        lb \in {JsIdentifierExpression("a"), JsThisExpression},
        rb \in {JsIdentifierExpression("a"), JsIdentifierExpression("b"), JsThisExpression},
        l \in AnyAccess, r \in AnyAccess}

\* A key of every kind below the same outer name: a[3].foo = a[4].foo, a['a'].foo = a["a"].foo, ...
InnerKeyPairs ==
    {Pair(ChainAssignment(JsIdentifierExpression("a"), <<l, Access(FALSE, JsName("foo"))>>),
          ChainExpression(JsIdentifierExpression("a"), <<r, Access(FALSE, JsName("foo"))>>)) :
        l \in AnyAccess, r \in AnyAccess}

\* Chains of up to MaxChain accesses on each side: a.b = a.a.b, a[a].b = a[a].b, b.a.a = a.a.a, ...
ChainPairs ==
    LET accesses == {Access(FALSE, JsName("a")), Access(FALSE, JsName("b")),
                     Access(TRUE, JsIdentifierExpression("a")),
                     Access(TRUE, JsNumberLiteralExpression(<<"1">>))}
    IN  {Pair(ChainAssignment(JsIdentifierExpression("a"), l), ChainExpression(rb, r)) :
            rb \in {JsIdentifierExpression(t) : t \in Names},
            l \in SeqsFromTo(accesses, 1, MaxChain), r \in SeqsFromTo(accesses, 1, MaxChain)}

\* Chains on a base that is neither a member access nor an identifier, as the
\* operands and in the slots of arrays: this.a.a = this.a.a, [this.a, a] = [this.a, a],
\* [[f().a], a] = [[f().a], a], ...
OtherBasePairs ==
    LET Chain(base, accesses) ==
            Pair(ChainAssignment(base, accesses), ChainExpression(base, accesses))
        bases  == {JsThisExpression, JsCallExpression}
        a      == Access(FALSE, JsName("a"))
        same   == Pair(JsIdentifierAssignment("a"), JsIdentifierExpression("a"))
        chains == {Chain(base, <<a>>) : base \in bases}
        nested == {Pair(JsArrayAssignmentPattern(<<Element(p.left)>>),
                        JsArrayExpression(<<p.right>>)) : p \in chains}
        slots  == chains \cup nested \cup {same}
    IN  {Chain(base, <<a, a>>) : base \in bases}
        \cup {Pair(JsArrayAssignmentPattern([i \in 1..Len(e) |-> Element(e[i].left)]),
                   JsArrayExpression(Rights(e))) : e \in SeqsFromTo(slots, 1, MaxFlat)}

\* The operand pairs examined under the plain assignment operator.
OperandPairs ==
    RootPairs \cup FlatArrayPairs \cup FlatObjectPairs \cup MixedArrayPairs
    \cup MixedObjectPairs \cup UNION {NestedArrayPairs(d) : d \in 1..MaxDepth}
    \cup SingleAccessPairs \cup InnerKeyPairs \cup ChainPairs \cup OtherBasePairs

JsAssignmentExpression(pair, operator) ==
    [left |-> WithRanges(pair.left, <<0>>), right |-> WithRanges(pair.right, <<1>>),
     operator |-> operator]

\* Every operand pair under `=`, and the root pairs under every operator (and with
\* the operator token missing).
AssignmentExpressions ==
    {JsAssignmentExpression(p, "Assign") : p \in OperandPairs}
    \cup {JsAssignmentExpression(p, op) :
            p \in RootPairs, op \in QualifyingOperators \cup OtherOperators \cup {MissingOperator}}

\* ---------------------------------------------------------------- the rule

Init ==
    /\ assignment \in AssignmentExpressions
    /\ pc = "run"
    /\ try_result = "NotCalled"
    /\ current_assignment_like = NoneLike
    /\ assignment_queue = <<>>
    /\ result = <<>>
    /\ diagnostics = <<>>
    /\ running = 1
    /\ suspended = <<>>

\* NoSelfAssign::run up to the start of compare_assignment_like's loop.
Run ==
    /\ pc = "run"
    /\ IF /\ assignment.operator \in QualifyingOperators
          /\ assignment.left # Missing
          /\ assignment.right # Missing
       THEN LET pair == AnyAssignmentLike_try_from(assignment.left, assignment.right)
            IN  IF pair = Err
                THEN /\ try_result' = "Err"
                     /\ pc' = "done"
                     /\ UNCHANGED current_assignment_like
                ELSE /\ try_result' = "Ok"
                     /\ current_assignment_like' = pair
                     /\ pc' = "next"
       ELSE /\ pc' = "done"
            /\ UNCHANGED <<try_result, current_assignment_like>>
    /\ UNCHANGED <<assignment, assignment_queue, result, diagnostics, running, suspended>>

\* SameIdentifiers::next is called by the for loop: its guard before the loop.
Next_call ==
    /\ pc = "next"
    /\ pc' = IF current_assignment_like.kind = "None" THEN "done" ELSE "loop"
    /\ UNCHANGED <<assignment, try_result, current_assignment_like, assignment_queue,
                   result, diagnostics, running, suspended>>

\* Mutant of Next_loop: with the backlog empty the loop goes on instead of
\* returning None.
Next_loop_without_return ==
    /\ pc = "loop"
    /\ \E n \in {next_assignment_like(current_assignment_like, assignment_queue)} :
           IF n.ret = Nil
           THEN /\ current_assignment_like' = n.current
                /\ assignment_queue' = n.queue
                /\ pc' = "done"
                /\ UNCHANGED result
           ELSE IF n.ret.kind = "None"
           THEN IF n.queue # <<>>
                THEN /\ current_assignment_like' = Head(n.queue)
                     /\ assignment_queue' = Tail(n.queue)
                     /\ pc' = "loop"
                     /\ UNCHANGED result
                ELSE /\ current_assignment_like' = n.current
                     /\ assignment_queue' = n.queue
                     /\ pc' = "loop"
                     /\ UNCHANGED result
           ELSE IF n.ret.kind = "Identifiers"
           THEN /\ current_assignment_like' = n.current
                /\ assignment_queue' = n.queue
                /\ result' = IF with_same_identifiers(n.ret.ids)
                             THEN Append(result, n.ret.ids) ELSE result
                /\ pc' = "next"
           ELSE /\ assignment_queue' = Append(n.queue, n.current)
                /\ current_assignment_like' = n.ret
                /\ pc' = "loop"
                /\ UNCHANGED result
    /\ UNCHANGED <<assignment, try_result, diagnostics, running, suspended>>

\* Mutant of Next_loop: with the backlog empty, a slot that is no match is passed
\* over and the loop goes on with the next slot of the current shape.
Next_loop_past_no_match ==
    /\ pc = "loop"
    /\ \E n \in {next_assignment_like(current_assignment_like, assignment_queue)} :
           IF n.ret = Nil
           THEN /\ current_assignment_like' = n.current
                /\ assignment_queue' = n.queue
                /\ pc' = "done"
                /\ UNCHANGED result
           ELSE IF n.ret.kind = "None"
           THEN IF n.queue # <<>>
                THEN /\ current_assignment_like' = Head(n.queue)
                     /\ assignment_queue' = Tail(n.queue)
                     /\ pc' = "loop"
                     /\ UNCHANGED result
                ELSE /\ current_assignment_like' = n.current
                     /\ assignment_queue' = n.queue
                     /\ pc' = IF /\ n.current.kind \in {"Arrays", "Object"}
                                 /\ n.current.left # <<>>
                                 /\ n.current.right # <<>>
                              THEN "loop" ELSE "done"
                     /\ UNCHANGED result
           ELSE IF n.ret.kind = "Identifiers"
           THEN /\ current_assignment_like' = n.current
                /\ assignment_queue' = n.queue
                /\ result' = IF with_same_identifiers(n.ret.ids)
                             THEN Append(result, n.ret.ids) ELSE result
                /\ pc' = "next"
           ELSE /\ assignment_queue' = Append(n.queue, n.current)
                /\ current_assignment_like' = n.ret
                /\ pc' = "loop"
                /\ UNCHANGED result
    /\ UNCHANGED <<assignment, try_result, diagnostics, running, suspended>>

\* One iteration of the loop of SameIdentifiers::next; when it returns an
\* IdentifiersLike, the body of compare_assignment_like's for loop.
Next_loop ==
    /\ pc = "loop"
    /\ \E n \in {next_assignment_like(current_assignment_like, assignment_queue)} :
           IF n.ret = Nil
           THEN /\ current_assignment_like' = n.current
                /\ assignment_queue' = n.queue
                /\ pc' = "done"
                /\ UNCHANGED result
           ELSE IF n.ret.kind = "None"
           THEN IF n.queue # <<>>
                THEN /\ current_assignment_like' = Head(n.queue)
                     /\ assignment_queue' = Tail(n.queue)
                     /\ pc' = "loop"
                     /\ UNCHANGED result
                ELSE /\ current_assignment_like' = n.current
                     /\ assignment_queue' = n.queue
                     /\ pc' = "done"
                     /\ UNCHANGED result
           ELSE IF n.ret.kind = "Identifiers"
           THEN /\ current_assignment_like' = n.current
                /\ assignment_queue' = n.queue
                /\ result' = IF with_same_identifiers(n.ret.ids)
                             THEN Append(result, n.ret.ids) ELSE result
                /\ pc' = "next"
           ELSE /\ assignment_queue' = Append(n.queue, n.current)
                /\ current_assignment_like' = n.ret
                /\ pc' = "loop"
                /\ UNCHANGED result
    /\ UNCHANGED <<assignment, try_result, diagnostics, running, suspended>>

\* The analyzer calls NoSelfAssign::diagnostic on every signal run returned.
Report ==
    /\ pc = "done"
    /\ diagnostics' = [i \in 1..Len(result) |-> diagnostic(result[i])]
    /\ pc' = "reported"
    /\ UNCHANGED <<assignment, try_result, current_assignment_like, assignment_queue, result,
                   running, suspended>>

Next == Run \/ Next_call \/ Next_loop \/ Report

Spec == Init /\ [][Next]_vars

\* run is a sequential function: once called it keeps taking its next step until
\* it has returned and its signals have been reported.
FairSpec == Spec /\ WF_vars(Next)

\* ------------------------------------------------- interleaved invocations

\* a = a, [[a], a] = [[a], a], [[a], x[b + 1], a] = [[a], x[b + 1], a],
\* ({a: [a], b} = {a: [a], b}), [a.b, a] = [a.b, b]
InterleavedPairs ==
    LET same   == Pair(JsIdentifierAssignment("a"), JsIdentifierExpression("a"))
        other  == Pair(JsIdentifierAssignment("a"), JsIdentifierExpression("b"))
        array  == Pair(JsArrayAssignmentPattern(<<Element(same.left)>>),
                       JsArrayExpression(<<same.right>>))
        chain  == Pair(JsStaticMemberAssignment(JsIdentifierExpression("a"), JsName("b")),
                       JsStaticMemberExpression(JsIdentifierExpression("a"), JsName("b")))
        unsupported == Pair(UnsupportedComputedAssignment, UnsupportedComputedExpression)
        Array(e) == Pair(JsArrayAssignmentPattern([i \in 1..Len(e) |-> Element(e[i].left)]),
                         JsArrayExpression(Rights(e)))
    IN  {same,
         Array(<<array, same>>),
         Array(<<array, unsupported, same>>),
         Pair(JsObjectAssignmentPattern(
                  <<JsObjectAssignmentPatternProperty(Key("a"), array.left),
                    JsObjectAssignmentPatternShorthandProperty("b")>>),
              JsObjectExpression(
                  <<JsPropertyObjectMember(Key("a"), array.right),
                    JsShorthandPropertyObjectMember("b")>>)),
         Array(<<chain, other>>)}

InterleavedExpressions == {JsAssignmentExpression(p, "Assign") : p \in InterleavedPairs}

\* The variables of the invocation that is executing, to be put aside.
Context ==
    [assignment |-> assignment, pc |-> pc, try_result |-> try_result,
     current_assignment_like |-> current_assignment_like,
     assignment_queue |-> assignment_queue, result |-> result, diagnostics |-> diagnostics]

\* The variables of an invocation on the node that has not taken a step yet.
NotStarted(node) ==
    [assignment |-> node, pc |-> "run", try_result |-> "NotCalled",
     current_assignment_like |-> NoneLike, assignment_queue |-> <<>>,
     result |-> <<>>, diagnostics |-> <<>>]

\* The rule is invoked on MaxInvocations assignment expressions (the same one or
\* different ones); the first invocation is the one scheduled.
InterleavedInit ==
    \E nodes \in [1..MaxInvocations -> InterleavedExpressions] :
        /\ assignment = nodes[1]
        /\ pc = "run"
        /\ try_result = "NotCalled"
        /\ current_assignment_like = NoneLike
        /\ assignment_queue = <<>>
        /\ result = <<>>
        /\ diagnostics = <<>>
        /\ running = 1
        /\ suspended = [i \in 1..MaxInvocations |->
                            IF i = 1 THEN Nil ELSE NotStarted(nodes[i])]

\* Mutant of Switch: the signal vector is one vector all invocations push to.
Switch_sharing_result ==
    \E next \in DOMAIN suspended :
        /\ next # running
        /\ suspended' = [suspended EXCEPT ![running] = Context, ![next] = Nil]
        /\ running' = next
        /\ assignment' = suspended[next].assignment
        /\ pc' = suspended[next].pc
        /\ try_result' = suspended[next].try_result
        /\ current_assignment_like' = suspended[next].current_assignment_like
        /\ assignment_queue' = suspended[next].assignment_queue
        /\ result' = result
        /\ diagnostics' = suspended[next].diagnostics

\* Mutant of Switch: the backlog is one queue all invocations push to and pop from.
Switch_sharing_queue ==
    \E next \in DOMAIN suspended :
        /\ next # running
        /\ suspended' = [suspended EXCEPT ![running] = Context, ![next] = Nil]
        /\ running' = next
        /\ assignment' = suspended[next].assignment
        /\ pc' = suspended[next].pc
        /\ try_result' = suspended[next].try_result
        /\ current_assignment_like' = suspended[next].current_assignment_like
        /\ assignment_queue' = assignment_queue
        /\ result' = suspended[next].result
        /\ diagnostics' = suspended[next].diagnostics

\* Another invocation is scheduled: the next step is taken by it, on its own
\* node, result vector and SameIdentifiers; those of the invocation that was
\* executing stay as they are until it is scheduled again.
Switch ==
    \E next \in DOMAIN suspended :
        /\ next # running
        /\ suspended' = [suspended EXCEPT ![running] = Context, ![next] = Nil]
        /\ running' = next
        /\ assignment' = suspended[next].assignment
        /\ pc' = suspended[next].pc
        /\ try_result' = suspended[next].try_result
        /\ current_assignment_like' = suspended[next].current_assignment_like
        /\ assignment_queue' = suspended[next].assignment_queue
        /\ result' = suspended[next].result
        /\ diagnostics' = suspended[next].diagnostics

InterleavedNext == Run \/ Next_call \/ Next_loop \/ Report \/ Switch

\* Several invocations of the rule, their steps interleaved in any order.
InterleavedSpec == InterleavedInit /\ [][InterleavedNext]_vars

\* ================================================================ properties

\* run has returned its signals.
Finished == pc \in {"done", "reported"}

\* How many signals pair the node at range l with the node at range r.
SignalCount(l, r) ==
    Cardinality({k \in 1..Len(result) :
                    result[k].left.range = l /\ result[k].right.range = r})

IsRoot(left_kind, right_kind) ==
    /\ assignment.left.kind = left_kind
    /\ assignment.right.kind = right_kind

\* The text of the token of an identifier, a name or a literal.
TextOf(node) ==
    IF node.kind = "JsIdentifierAssignment" THEN node.name_token.text
    ELSE IF node.kind = "JsIdentifierExpression" THEN node.name.value_token.text
    ELSE node.value_token.text

RECURSIVE FullyPresent(_)
\* No node or token of the subtree is missing.
FullyPresent(node) ==
    /\ node # Missing
    /\ \A f \in DOMAIN node :
          IF f \in ListFields
          THEN \A i \in 1..Len(node[f]) : FullyPresent(node[f][i])
          ELSE IF \E k \in DOMAIN ChildFields : ChildFields[k] = f
          THEN FullyPresent(node[f])
          ELSE f \in {"value_token", "name_token"} => node[f] # Missing

\* ---------------------------------------------------------------------- C1

\* C1: no leaf pair (same left node, same right node) appears more than once in
\* the signals of an assignment expression.
C1_NoLeafPairSignalledTwice ==
    \A i, j \in 1..Len(result) :
        (result[i].left.range = result[j].left.range
            /\ result[i].right.range = result[j].right.range) => i = j

\* ---------------------------------------------------------------------- C2

\* C2: in an object pattern paired with an object literal, a signal on the value
\* identifiers of a keyed slot {k1: x} / {k2: y} means the keys k1 and k2 are the
\* same key and x and y have the same text.
C2_KeyedSlotSignalHasSameKey ==
    IsRoot("JsObjectAssignmentPattern", "JsObjectExpression") =>
        \A i \in 1..Len(assignment.left.properties) :
            LET l == assignment.left.properties[i]
                r == IF i <= Len(assignment.right.members)
                     THEN assignment.right.members[i] ELSE Nil
            IN  (/\ r # Nil
                 /\ l.kind = "JsObjectAssignmentPatternProperty"
                 /\ r.kind = "JsPropertyObjectMember"
                 /\ l.pattern.kind = "JsIdentifierAssignment"
                 /\ r.value.kind = "JsIdentifierExpression"
                 /\ SignalCount(l.pattern.range, r.value.name.range) > 0)
                => (/\ TextOf(l.member) = TextOf(r.name)
                    /\ TextOf(l.pattern) = TextOf(r.value))

\* ---------------------------------------------------------------------- C3

\* C3: only =, &&=, ||= and ??= are examined: under every other operator the
\* operands are never classified and no signal is returned, whatever they are;
\* under these four, with both operands present, they are classified.
C3_OnlyFourOperatorsExamined ==
    LET examined == assignment.operator \in {"Assign", "LogicalAndAssign",
                                             "LogicalOrAssign", "NullishCoalescingAssign"}
    IN  /\ ~examined => (result = <<>> /\ try_result = "NotCalled")
        /\ (examined /\ pc # "run" /\ assignment.left # Missing /\ assignment.right # Missing)
              => try_result # "NotCalled"

\* a &= a has been run: identical operands under an excluded operator.
C3_Witness ==
    /\ pc = "reported"
    /\ assignment.operator = "BitwiseAndAssign"
    /\ IsRoot("JsIdentifierAssignment", "JsIdentifierExpression")
    /\ assignment.right.name # Missing
    /\ TextOf(assignment.left) = TextOf(assignment.right)

\* ---------------------------------------------------------------------- C4

\* C4: a root pair (identifier target, identifier reference value) under a
\* qualifying operator gives exactly one signal when the two texts are equal and
\* none otherwise; the diagnostic's span is the right identifier, its detail the
\* left identifier and its message text the right identifier's token.
C4_RootIdentifierPair ==
    (/\ pc = "reported"
     /\ assignment.operator \in {"Assign", "LogicalAndAssign",
                                 "LogicalOrAssign", "NullishCoalescingAssign"}
     /\ IsRoot("JsIdentifierAssignment", "JsIdentifierExpression")
     /\ assignment.right.name # Missing)
    => IF TextOf(assignment.left) = TextOf(assignment.right)
       THEN /\ Len(result) = 1
            /\ Len(diagnostics) = 1
            /\ diagnostics[1] # Nil
            /\ diagnostics[1].span = assignment.right.name.range
            /\ diagnostics[1].detail = assignment.left.range
            /\ diagnostics[1].message = assignment.right.name.value_token.text
       ELSE result = <<>> /\ diagnostics = <<>>

\* a ||= a has been reported.
C4_Witness ==
    /\ pc = "reported"
    /\ assignment.operator = "LogicalOrAssign"
    /\ IsRoot("JsIdentifierAssignment", "JsIdentifierExpression")
    /\ assignment.right.name # Missing
    /\ TextOf(assignment.left) = TextOf(assignment.right)
    /\ Len(diagnostics) = 1

\* ---------------------------------------------------------------------- C5

StaticAccess == {"JsStaticMemberAssignment", "JsStaticMemberExpression"}

ComputedAccess == {"JsComputedMemberAssignment", "JsComputedMemberExpression"}

RECURSIVE AccessLevels(_)
\* The member accesses of a chain, outermost first.
AccessLevels(node) ==
    IF node.kind \notin StaticAccess \cup ComputedAccess THEN <<>>
    ELSE <<node>> \o AccessLevels(node.object)

RECURSIVE ChainBase(_)
\* The expression the innermost access of a chain is applied to.
ChainBase(node) ==
    IF node.kind \notin StaticAccess \cup ComputedAccess THEN node
    ELSE ChainBase(node.object)

\* The kind of key of one access: member name, private name, identifier
\* reference or literal; anything else is unsupported.
KeyClass(access) ==
    IF access.kind \in StaticAccess
    THEN (IF access.member.kind = "JsName" THEN "name"
          ELSE IF access.member.kind = "JsPrivateName" THEN "private"
          ELSE "unsupported")
    ELSE IF access.member.kind = "JsIdentifierExpression"
    THEN (IF access.member.name # Missing THEN "reference" ELSE "unsupported")
    ELSE IF access.member.kind \in
              {"JsStringLiteralExpression", "JsNumberLiteralExpression",
               "JsBooleanLiteralExpression"}
    THEN "literal"
    ELSE "unsupported"

Unquoted(text) == SubSeq(text, 2, Len(text) - 1)

\* The literal equality the specification states: strings by their unquoted
\* text, numbers by their raw text, never across kinds.
LiteralsEqual(l, r) ==
    \/ /\ l.kind = "JsStringLiteralExpression"
       /\ r.kind = "JsStringLiteralExpression"
       /\ Unquoted(l.value_token.text) = Unquoted(r.value_token.text)
    \/ /\ l.kind = "JsNumberLiteralExpression"
       /\ r.kind = "JsNumberLiteralExpression"
       /\ l.value_token.text = r.value_token.text

\* Two keys of one level are of the same kind and equal.
KeysEqual(l, r) ==
    /\ KeyClass(l) = KeyClass(r)
    /\ KeyClass(l) # "unsupported"
    /\ IF KeyClass(l) = "literal" THEN LiteralsEqual(l.member, r.member)
       ELSE TextOf(l.member) = TextOf(r.member)

IdentifierBasesEqual(l, r) ==
    /\ ChainBase(l).kind = "JsIdentifierExpression"
    /\ ChainBase(r).kind = "JsIdentifierExpression"
    /\ ChainBase(l).name # Missing
    /\ ChainBase(r).name # Missing
    /\ TextOf(ChainBase(l)) = TextOf(ChainBase(r))

ChainsMatch(l, r) ==
    /\ Len(AccessLevels(l)) = Len(AccessLevels(r))
    /\ \A i \in 1..Len(AccessLevels(l)) : KeysEqual(AccessLevels(l)[i], AccessLevels(r)[i])
    /\ IdentifierBasesEqual(l, r)

IsRootChainPair ==
    \/ IsRoot("JsStaticMemberAssignment", "JsStaticMemberExpression")
    \/ IsRoot("JsComputedMemberAssignment", "JsComputedMemberExpression")

Min(m, n) == IF m <= n THEN m ELSE n

\* [x1, ..., xm] = [y1, ..., yn]: identifiers only, no defaults.
IsRootIdentifierArrayPair ==
    /\ IsRoot("JsArrayAssignmentPattern", "JsArrayExpression")
    /\ \A i \in 1..Len(assignment.left.elements) :
          LET e == assignment.left.elements[i]
          IN  /\ e.kind = "JsArrayAssignmentPatternElement"
              /\ e.init = Nil
              /\ e.pattern.kind = "JsIdentifierAssignment"
    /\ \A i \in 1..Len(assignment.right.elements) :
          /\ assignment.right.elements[i].kind = "JsIdentifierExpression"
          /\ assignment.right.elements[i].name # Missing

\* C6: for arrays of plain identifiers without defaults, slot i (below the shorter
\* length) is signalled if and only if the identifiers at index i of the two sides
\* have the same text, and every signal pairs the two identifiers of one such
\* index: different indices are never related, elements beyond the shorter side
\* are ignored.
C6_ArraySlotsArePositional ==
    (Finished /\ assignment.operator \in QualifyingOperators /\ IsRootIdentifierArrayPair) =>
        LET l == assignment.left.elements
            r == assignment.right.elements
            n == Min(Len(l), Len(r))
        IN  /\ \A i \in 1..n :
                  SignalCount(l[i].pattern.range, r[i].name.range) > 0
                      <=> TextOf(l[i].pattern) = TextOf(r[i])
            /\ \A k \in 1..Len(result) :
                  \E i \in 1..n : /\ result[k].left.range = l[i].pattern.range
                                  /\ result[k].right.range = r[i].name.range

\* [a, b] = [b, a] has been examined, and so has an array pair of different
\* lengths with a signal.
C6_Witness ==
    /\ pc = "reported"
    /\ IsRootIdentifierArrayPair
    /\ Len(assignment.left.elements) = 2
    /\ Len(assignment.right.elements) = 2
    /\ TextOf(assignment.left.elements[1].pattern) = TextOf(assignment.right.elements[2])
    /\ TextOf(assignment.left.elements[2].pattern) = TextOf(assignment.right.elements[1])
    /\ TextOf(assignment.left.elements[1].pattern) # TextOf(assignment.right.elements[1])
    /\ result = <<>>

\* ---------------------------------------------------------------------- C7

\* C7: an array element with a default initializer never gives a signal for its
\* slot, also when its target has the name of the value at the same index.
C7_DefaultInitializerNeverSignalled ==
    IsRoot("JsArrayAssignmentPattern", "JsArrayExpression") =>
        \A i \in 1..Len(assignment.left.elements) :
            LET e == assignment.left.elements[i]
            IN  (e.kind = "JsArrayAssignmentPatternElement" /\ e.init # Nil) =>
                    \A k \in 1..Len(result) : result[k].left.range # e.pattern.range

\* [a, a = 1] = [a, a] has been examined: the first slot is signalled, the second,
\* which has the default, is not.
C7_Witness ==
    /\ pc = "reported"
    /\ IsRoot("JsArrayAssignmentPattern", "JsArrayExpression")
    /\ Len(assignment.left.elements) = 2
    /\ Len(assignment.right.elements) = 2
    /\ assignment.left.elements[2].init # Nil
    /\ assignment.right.elements[2].kind = "JsIdentifierExpression"
    /\ TextOf(assignment.left.elements[2].pattern) = TextOf(assignment.right.elements[2])
    /\ Len(result) = 1

\* ---------------------------------------------------------------------- C8

\* Slot i of the two root objects is {k: x} / {k': y} or {x} / {y}.
IsKeyedSlot(i) ==
    LET l == assignment.left.properties[i]
        r == assignment.right.members[i]
    IN  /\ l.kind = "JsObjectAssignmentPatternProperty"
        /\ r.kind = "JsPropertyObjectMember"
        /\ l.pattern.kind = "JsIdentifierAssignment"
        /\ r.value.kind = "JsIdentifierExpression"

IsShorthandSlot(i) ==
    /\ assignment.left.properties[i].kind = "JsObjectAssignmentPatternShorthandProperty"
    /\ assignment.right.members[i].kind = "JsShorthandPropertyObjectMember"

StringOrNumber == {"JsStringLiteralExpression", "JsNumberLiteralExpression"}

\* a[l] = a[r], or a[l].foo = a[r].foo, with l and r string or number literals:
\* the one comparison that decides the signal is that of l with r.
LiteralKeyAssignment ==
    LET l == assignment.left
        r == assignment.right
    IN  IF /\ IsRoot("JsComputedMemberAssignment", "JsComputedMemberExpression")
           /\ l.object.kind = "JsIdentifierExpression"
           /\ r.object.kind = "JsIdentifierExpression"
        THEN [ok |-> /\ l.member.kind \in StringOrNumber
                     /\ r.member.kind \in StringOrNumber
                     /\ TextOf(l.object) = TextOf(r.object),
              left |-> l.member, right |-> r.member]
        ELSE IF /\ IsRoot("JsStaticMemberAssignment", "JsStaticMemberExpression")
                /\ l.object.kind = "JsComputedMemberExpression"
                /\ r.object.kind = "JsComputedMemberExpression"
        THEN [ok |-> /\ l.object.member.kind \in StringOrNumber
                     /\ r.object.member.kind \in StringOrNumber
                     /\ l.object.object.kind = "JsIdentifierExpression"
                     /\ r.object.object.kind = "JsIdentifierExpression"
                     /\ TextOf(l.object.object) = TextOf(r.object.object)
                     /\ l.member.kind = "JsName"
                     /\ r.member.kind = "JsName"
                     /\ TextOf(l.member) = TextOf(r.member),
              left |-> l.object.member, right |-> r.object.member]
        ELSE [ok |-> FALSE, left |-> Nil, right |-> Nil]

\* C9: the comparison of a literal pair is syntactic: two string literals are
\* equal exactly when their unquoted texts are equal, two numeric literals
\* exactly when their raw texts are equal (1 and 1.0 are not), a string and a
\* number never.
C9_LiteralComparisonIsSyntactic ==
    (Finished /\ assignment.operator \in QualifyingOperators /\ LiteralKeyAssignment.ok) =>
        LET l == LiteralKeyAssignment.left
            r == LiteralKeyAssignment.right
            equal == Len(result) = 1
        IN  /\ Len(result) <= 1
            /\ (l.kind = "JsStringLiteralExpression" /\ r.kind = "JsStringLiteralExpression")
                  => (equal <=> Unquoted(l.value_token.text) = Unquoted(r.value_token.text))
            /\ (l.kind = "JsNumberLiteralExpression" /\ r.kind = "JsNumberLiteralExpression")
                  => (equal <=> l.value_token.text = r.value_token.text)
            /\ l.kind # r.kind => ~equal

\* a['a'] = a["a"] has been examined and signalled: the quote styles differ.
C9_Witness ==
    /\ pc = "reported"
    /\ LiteralKeyAssignment.ok
    /\ LiteralKeyAssignment.left.kind = "JsStringLiteralExpression"
    /\ LiteralKeyAssignment.right.kind = "JsStringLiteralExpression"
    /\ LiteralKeyAssignment.left.value_token.text # LiteralKeyAssignment.right.value_token.text
    /\ Len(result) = 1

\* --------------------------------------------------------------------- C10

\* C10: classifying a fully present pair of operands never gives an error: an
\* error result means a required child is absent.
C10_ClassifierFailsOnlyOnMissingChild ==
    try_result = "Err" => ~(FullyPresent(assignment.left) /\ FullyPresent(assignment.right))

\* --------------------------------------------------------------------- C11

\* C11: the leaf-pair sequence never ends with suspended shapes left in the
\* backlog: when compare_assignment_like has returned, every shape that was
\* pushed onto the backlog has been popped again.
C11_SequenceEndsWithEmptyBacklog ==
    (Finished /\ try_result = "Ok") => assignment_queue = <<>>

\* --------------------------------------------------------------------- C12

\* C12: whatever the operands, the traversal reaches the end of the leaf-pair
\* sequence: run returns after finitely many steps of the driver.
C12_TraversalTerminates == <>Finished

\* [[[a], a], a] = [[[a], a], a] has been traversed to its end: arrays nested
\* three deep, with shapes suspended and resumed on the way.
C12_Witness ==
    /\ pc = "done"
    /\ try_result = "Ok"
    /\ IsRoot("JsArrayAssignmentPattern", "JsArrayExpression")
    /\ Len(assignment.left.elements) = 2
    /\ assignment.left.elements[1].pattern.kind = "JsArrayAssignmentPattern"
    /\ Len(assignment.left.elements[1].pattern.elements) = 2
    /\ assignment.left.elements[1].pattern.elements[1].pattern.kind = "JsArrayAssignmentPattern"
    /\ Len(result) >= 3

\* --------------------------------------------------------------------- C13

\* The variables of the invocation i.
Invocation(i) == IF i = running THEN Context ELSE suspended[i]

InvocationFinished(i) == Invocation(i).pc \in {"done", "reported"}

\* C13: two runs of the rule on the same assignment expression return the same
\* signals (the same leaf pairs, with the same ranges, in the same order),
\* whether the second run starts after the first has returned or before.
C13_SameNodeSameSignals ==
    \A i, j \in DOMAIN suspended :
        (/\ Invocation(i).assignment = Invocation(j).assignment
         /\ InvocationFinished(i)
         /\ InvocationFinished(j))
            => Invocation(i).result = Invocation(j).result

\* Two runs on [[a], a] = [[a], a] have both returned, with their three signals.
C13_Witness ==
    \E i, j \in DOMAIN suspended :
        /\ i # j
        /\ Invocation(i).assignment = Invocation(j).assignment
        /\ InvocationFinished(i)
        /\ InvocationFinished(j)
        /\ Len(Invocation(i).result) = 3
        /\ Len(Invocation(j).result) = 3

\* --------------------------------------------------------------------- C14

\* C14: an invocation whose steps are interleaved with those of other
\* invocations returns the signals run returns for its node when run alone.
C14_InterleavedAsAlone ==
    \A i \in DOMAIN suspended :
        InvocationFinished(i) => Invocation(i).result = run(Invocation(i).assignment)

\* An invocation has returned its signals while another one, on a different
\* assignment expression, is in the middle of its traversal with shapes
\* suspended in its own backlog and a signal already found.
C14_Witness ==
    \E i, j \in DOMAIN suspended :
        /\ Invocation(i).assignment # Invocation(j).assignment
        /\ InvocationFinished(i)
        /\ Len(Invocation(i).result) >= 1
        /\ Invocation(i).assignment_queue # <<>>
        /\ Invocation(j).pc = "loop"
        /\ Invocation(j).assignment_queue # <<>>
        /\ Len(Invocation(j).result) >= 1

\* --------------------------------------------------------------------- C15

\* The driver is about to pull a slot from an array or object shape.
PullsSlot == pc = "loop" /\ current_assignment_like.kind \in {"Arrays", "Object"}

\* What the slot about to be pulled classifies as (Nil: it could not be classified).
PulledShape == next_assignment_like(current_assignment_like, assignment_queue).ret

\* The current shape with its cursors past the slot about to be pulled.
CurrentAdvanced == next_assignment_like(current_assignment_like, assignment_queue).current

\* C15: a step that pulls a slot classified as a nested array or object shape
\* pushes the current shape, with its cursors past that slot, onto the backlog
\* once (the backlog grows by one entry) and makes the nested shape current.
C15_NestedShapeSuspendsCurrentOnce ==
    [][(PullsSlot /\ PulledShape # Nil /\ PulledShape.kind \in {"Arrays", "Object"})
          => /\ assignment_queue' = Append(assignment_queue, CurrentAdvanced)
             /\ current_assignment_like' = PulledShape]_vars

\* --------------------------------------------------------------------- C16

RECURSIVE PatternRanges(_)
\* The array and object pattern nodes of a subtree, by their ranges.
PatternRanges(node) ==
    IF "range" \notin DOMAIN node THEN {}
    ELSE (IF node.kind \in {"JsArrayAssignmentPattern", "JsObjectAssignmentPattern"}
          THEN {node.range} ELSE {})
         \cup UNION {IF f \in ListFields
                     THEN UNION {PatternRanges(node[f][i]) : i \in 1..Len(node[f])}
                     ELSE IF \E k \in DOMAIN ChildFields : ChildFields[k] = f
                     THEN PatternRanges(node[f])
                     ELSE {} : f \in DOMAIN node}

\* C16: the backlog never holds more entries than the left operand has array
\* and object pattern nodes.
C16_BacklogBoundedByPatternNodes ==
    Len(assignment_queue) <= Cardinality(PatternRanges(assignment.left))

\* --------------------------------------------------------------------- C17

\* The target pattern and the value expression of the slot about to be pulled:
\* an array element pattern without default and the expression at its index, or a
\* keyed property's pattern and the keyed member's value. Nil for any other slot.
PulledPair ==
    LET left  == current_assignment_like.left
        right == current_assignment_like.right
    IN  IF left = <<>> \/ right = <<>> THEN Nil
        ELSE IF Head(left) = Missing \/ Head(right) = Missing THEN Nil
        ELSE IF current_assignment_like.kind = "Arrays"
        THEN IF /\ Head(left).kind = "JsArrayAssignmentPatternElement"
                /\ Head(left).init = Nil
                /\ Head(left).pattern # Missing
                /\ Head(right).kind # "JsArrayHole"
             THEN Pair(Head(left).pattern, Head(right))
             ELSE Nil
        ELSE IF /\ Head(left).kind = "JsObjectAssignmentPatternProperty"
                /\ Head(right).kind = "JsPropertyObjectMember"
                /\ Head(left).pattern # Missing
                /\ Head(right).value # Missing
             THEN Pair(Head(left).pattern, Head(right).value)
             ELSE Nil

\* C17: the shape a pulled slot is given is the shape the classifier gives the
\* slot's target and value as the two operands of an assignment (no shape when
\* the classifier fails).
C17_SlotClassifiedAsRootPair ==
    (PullsSlot /\ PulledPair # Nil) =>
        LET shape == AnyAssignmentLike_try_from(PulledPair.left, PulledPair.right)
        IN  PulledShape = IF shape = Err THEN Nil ELSE shape

\* --------------------------------------------------------------------- C18

\* The traversal of a nested array or object shape is over (both cursors are at
\* the end) and shapes are suspended in the backlog.
NestedFinished ==
    /\ pc = "loop"
    /\ current_assignment_like.kind \in {"Arrays", "Object"}
    /\ current_assignment_like.left = <<>>
    /\ current_assignment_like.right = <<>>
    /\ assignment_queue # <<>>

\* C18: when the traversal of a nested shape is over, the shape made current is
\* the one that was suspended to start it: the shape suspended last.
C18_FinishedNestedResumesParent ==
    [][NestedFinished =>
          current_assignment_like' = assignment_queue[Len(assignment_queue)]]_vars

\* --------------------------------------------------------------------- C19

\* C19: once SameIdentifiers::next has returned None, calling it again returns
\* None again: no leaf pair is yielded after the end of the sequence.
C19_NoLeafPairAfterTheEnd ==
    (pc = "done" /\ try_result = "Ok") =>
        SameIdentifiers_next(current_assignment_like, assignment_queue).item = Nil

\* --------------------------------------------------------------------- C20

\* C20 as stated: a step that pulls a slot classified as a member chain or as a
\* leaf pair leaves the backlog unchanged.
C20_ChainOrLeafLeavesBacklogUnchanged ==
    [][(PullsSlot /\ PulledShape # Nil
            /\ PulledShape.kind \in {"Identifiers", "StaticExpression"})
          => assignment_queue' = assignment_queue]_vars

\* C20 amended: a step that pulls a slot classified as a leaf pair leaves the
\* backlog unchanged and the current shape current, its cursors past the slot; a
\* step that pulls a slot classified as a member chain pushes the current shape,
\* its cursors past the slot, onto the backlog once and makes the chain current,
\* so that the chain is resolved by the next step.
C20_LeafInlineChainSuspendsOnce ==
    [][(PullsSlot /\ PulledShape # Nil) =>
          /\ PulledShape.kind = "Identifiers" =>
                /\ assignment_queue' = assignment_queue
                /\ current_assignment_like' = CurrentAdvanced
          /\ PulledShape.kind = "StaticExpression" =>
                /\ assignment_queue' = Append(assignment_queue, CurrentAdvanced)
                /\ current_assignment_like' = PulledShape]_vars

\* [a.b, ...] = [a.b, ...]: the chain pulled from the root array is current and
\* the root array is the one shape in the backlog.
C20_Witness ==
    /\ pc = "loop"
    /\ IsRoot("JsArrayAssignmentPattern", "JsArrayExpression")
    /\ current_assignment_like.kind = "StaticExpression"
    /\ Len(assignment_queue) = 1
    /\ assignment_queue[1].kind = "Arrays"
    /\ result = <<>>

\* --------------------------------------------------------------------- C21

\* a[l] = a[r] with l and r literals of the same kind whose tokens have the same
\* text, on the same identifier.
SameLiteralKeyAssignment ==
    /\ IsRoot("JsComputedMemberAssignment", "JsComputedMemberExpression")
    /\ assignment.left.object.kind = "JsIdentifierExpression"
    /\ assignment.right.object.kind = "JsIdentifierExpression"
    /\ assignment.left.object.name # Missing
    /\ assignment.right.object.name # Missing
    /\ TextOf(assignment.left.object) = TextOf(assignment.right.object)
    /\ assignment.left.member.kind \in AnyJsLiteralExpression
    /\ assignment.right.member.kind = assignment.left.member.kind
    /\ assignment.right.member.value_token = assignment.left.member.value_token

\* C21: two literal keys of the same literal kind whose tokens have the same
\* text compare equal, whatever the literal kind: the comparator answers Some
\* for the pair, and a[l] = a[l] gives one signal for a boolean l as it does for
\* a number.
C21_SameKindLiteralsCompareEqual ==
    (Finished /\ assignment.operator \in QualifyingOperators /\ SameLiteralKeyAssignment) =>
        /\ with_same_identifiers(
               IdentifiersLike("Literal", assignment.left.member, assignment.right.member))
        /\ Len(result) = 1

\* --------------------------------------------------------------------- C22

IsPrefix(p, q) == Len(p) <= Len(q) /\ SubSeq(q, 1, Len(p)) = p

\* What slot i of an array or object shape over the two lists is given as its
\* shape (NoMatch for a default initializer or for incompatible node kinds).
SlotShape(kind, left, right, i) ==
    IF kind = "Arrays" THEN next_array_assignment(<<left[i]>>, <<right[i]>>).ret
    ELSE next_object_assignment(<<left[i]>>, <<right[i]>>).ret

\* The first slot of the shape that is NoMatch, or at which a cursor is exhausted.
FirstStoppingSlot(kind, left, right) ==
    LET shorter == Min(Len(left), Len(right))
        stops   == {i \in 1..shorter : SlotShape(kind, left, right, i) = NoneLike}
                   \cup {shorter + 1}
    IN  CHOOSE i \in stops : \A j \in stops : i <= j

RECURSIVE ElementsAfterStop(_, _, _)
\* The elements (by range) positioned after the first stopping slot of their
\* shape, for the shape over the two lists and the shapes nested in the slots
\* that precede its first stopping slot.
ElementsAfterStop(kind, left, right) ==
    LET first == FirstStoppingSlot(kind, left, right)
        Later(list) == {list[i].range : i \in {j \in (first + 1)..Len(list) :
                                                  "range" \in DOMAIN list[j]}}
        Nested(i) == LET shape == SlotShape(kind, left, right, i)
                     IN  IF shape # Nil /\ shape.kind \in {"Arrays", "Object"}
                         THEN ElementsAfterStop(shape.kind, shape.left, shape.right)
                         ELSE {}
    IN  Later(left) \cup Later(right) \cup UNION {Nested(i) : i \in 1..(first - 1)}

\* The elements after a stopping slot in the operands of the assignment.
SkippedElements ==
    IF IsRoot("JsArrayAssignmentPattern", "JsArrayExpression")
    THEN ElementsAfterStop("Arrays", assignment.left.elements, assignment.right.elements)
    ELSE IF IsRoot("JsObjectAssignmentPattern", "JsObjectExpression")
    THEN ElementsAfterStop("Object", assignment.left.properties, assignment.right.members)
    ELSE {}

\* The node at the range is a skipped element or lies inside one.
Skipped(range) == \E element \in SkippedElements : IsPrefix(element, range)

\* The slots of the root shape before its first stopping slot are all leaf pairs.
LeafSlotsBeforeStop ==
    LET kind  == IF assignment.left.kind = "JsArrayAssignmentPattern"
                 THEN "Arrays" ELSE "Object"
        left  == IF kind = "Arrays" THEN assignment.left.elements
                 ELSE assignment.left.properties
        right == IF kind = "Arrays" THEN assignment.right.elements
                 ELSE assignment.right.members
        first == FirstStoppingSlot(kind, left, right)
    IN  IF \A i \in 1..(first - 1) :
               /\ SlotShape(kind, left, right, i) # Nil
               /\ SlotShape(kind, left, right, i).kind = "Identifiers"
        THEN [ok  |-> TRUE,
              ids |-> [i \in 1..(first - 1) |-> SlotShape(kind, left, right, i).ids]]
        ELSE [ok |-> FALSE, ids |-> <<>>]

\* C22: within one array or object shape the traversal stops at the first slot
\* at which a cursor is exhausted, the element has a default initializer or the
\* node kinds are incompatible: no element positioned after such a slot in its
\* shape is pulled from a cursor, and none gives a signal; a leaf pair whose two
\* texts differ does not stop it: when the slots before the first stopping slot
\* are leaf pairs, every one of them with equal texts is signalled.
C22_TraversalStopsAtFirstStoppingSlot ==
    /\ PullsSlot =>
          /\ (current_assignment_like.left # <<>>
                 /\ "range" \in DOMAIN Head(current_assignment_like.left))
                => ~Skipped(Head(current_assignment_like.left).range)
          /\ (current_assignment_like.right # <<>>
                 /\ "range" \in DOMAIN Head(current_assignment_like.right))
                => ~Skipped(Head(current_assignment_like.right).range)
    /\ \A k \in 1..Len(result) :
          ~Skipped(result[k].left.range) /\ ~Skipped(result[k].right.range)
    /\ (/\ Finished
        /\ try_result = "Ok"
        /\ assignment.operator \in QualifyingOperators
        /\ current_assignment_like.kind \in {"Arrays", "Object"}
        /\ LeafSlotsBeforeStop.ok)
       => \A i \in DOMAIN LeafSlotsBeforeStop.ids :
             LET ids == LeafSlotsBeforeStop.ids[i]
             IN  SignalCount(ids.left.range, ids.right.range) =
                     IF with_same_identifiers(ids) THEN 1 ELSE 0

\* [a, a = 1, a] = [b, a, a] has been traversed: the unequal pair of slot 1 did
\* not stop the traversal, the default of slot 2 did, and slot 3, whose two
\* identifiers are the same, was skipped.
C22_Witness ==
    /\ pc = "done"
    /\ IsRoot("JsArrayAssignmentPattern", "JsArrayExpression")
    /\ Len(assignment.left.elements) = 3
    /\ Len(assignment.right.elements) = 3
    /\ FirstStoppingSlot("Arrays", assignment.left.elements, assignment.right.elements) = 2
    /\ assignment.left.elements[2].init # Nil
    /\ LeafSlotsBeforeStop.ok
    /\ ~with_same_identifiers(LeafSlotsBeforeStop.ids[1])
    /\ SlotShape("Arrays", assignment.left.elements, assignment.right.elements, 3).kind
          = "Identifiers"
    /\ with_same_identifiers(
           SlotShape("Arrays", assignment.left.elements, assignment.right.elements, 3).ids)
    /\ current_assignment_like.left = <<assignment.left.elements[3]>>
    /\ result = <<>>

\* --------------------------------------------------------------------- C23

\* C23: the traversal uses no native recursion: while a leaf pair is produced,
\* no function of the driver has more than one frame on the call stack, whatever
\* the length of the member chains.
C23_NoNativeRecursion ==
    (pc = "loop" /\ current_assignment_like.kind = "StaticExpression") =>
        next_static_expression_frames(current_assignment_like.left,
                                      current_assignment_like.right) <= 1

\* --------------------------------------------------------------------- C24

\* The member designator of an access as a leaf: the name of a static access, the
\* identifier reference or the literal of a computed one.
KeyOf(access) ==
    IF access.kind \in ComputedAccess /\ access.member.kind = "JsIdentifierExpression"
    THEN access.member.name
    ELSE access.member

\* C24: the signal of a member chain pair that matches is the pair of the
\* outermost keys, the member designators of the two root accesses: its ranges
\* are those of the last key of each chain, not of an inner key and not of the
\* base identifiers.
C24_ChainSignalIsOutermostKeyPair ==
    (Finished /\ IsRootChainPair /\ Len(result) >= 1) =>
        /\ Len(result) = 1
        /\ result[1].left = KeyOf(assignment.left)
        /\ result[1].right = KeyOf(assignment.right)
        /\ left_range(result[1]) = KeyOf(assignment.left).range
        /\ right_range(result[1]) = KeyOf(assignment.right).range

\* a.a.b = a.a.b has been signalled: two accesses on each side, the inner keys
\* `a`, the outermost keys `b`.
C24_Witness ==
    /\ pc = "reported"
    /\ IsRoot("JsStaticMemberAssignment", "JsStaticMemberExpression")
    /\ Len(AccessLevels(assignment.left)) = 2
    /\ Len(AccessLevels(assignment.right)) = 2
    /\ AccessLevels(assignment.left)[2].kind = "JsStaticMemberExpression"
    /\ TextOf(assignment.left.member) # TextOf(assignment.left.object.member)
    /\ Len(result) = 1
    /\ diagnostics[1].message = TextOf(assignment.right.member)

\* --------------------------------------------------------------------- C25

\* The chain the walker was built on ends in an expression that is neither a
\* member access nor an identifier reference (this, a call).
OnOtherBase(it) == ChainBase(it.source_object).kind # "JsIdentifierExpression"

\* The driver is about to resolve a chain pair one of whose chains is on such a base.
ResolvesChainOnOtherBase ==
    /\ pc = "loop"
    /\ current_assignment_like.kind = "StaticExpression"
    /\ OnOtherBase(current_assignment_like.left) \/ OnOtherBase(current_assignment_like.right)

\* C25: a chain on a base that is neither a member access nor an identifier
\* reference makes its chain pair no match: the step that resolves the pair adds
\* no signal, also when the two chains have the same text (this.a = this.a gives
\* none), and does not end the traversal while shapes are suspended in the
\* backlog: it goes on with a suspended shape.
C25_ChainOnOtherBaseIsNoMatch ==
    [][ResolvesChainOnOtherBase =>
          /\ next_assignment_like(current_assignment_like, assignment_queue).ret = NoneLike
          /\ result' = result
          /\ IF assignment_queue # <<>>
             THEN /\ pc' = "loop"
                  /\ current_assignment_like' = Head(assignment_queue)
                  /\ assignment_queue' = Tail(assignment_queue)
             ELSE pc' = "done" /\ result' = <<>>]_vars

\* [this.a, a] = [this.a, a] has been traversed: the chain pair of slot 1 gave no
\* signal and slot 2, pulled after it, gave one.
C25_Witness ==
    /\ pc = "done"
    /\ IsRoot("JsArrayAssignmentPattern", "JsArrayExpression")
    /\ Len(assignment.left.elements) = 2
    /\ assignment.left.elements[1].pattern.kind = "JsStaticMemberAssignment"
    /\ assignment.left.elements[1].pattern.object.kind = "JsThisExpression"
    /\ assignment.right.elements[1].kind = "JsStaticMemberExpression"
    /\ assignment.right.elements[1].object.kind = "JsThisExpression"
    /\ TextOf(assignment.left.elements[1].pattern.member)
          = TextOf(assignment.right.elements[1].member)
    /\ Len(result) = 1
    /\ left_range(result[1]) = assignment.left.elements[2].pattern.range

\* --------------------------------------------------------------------- C26

\* C26: the backlog holds array and object shapes only, and when
\* SameIdentifiers::next is called with a current shape that is None the backlog
\* is empty: the guard that ends the sequence on a None current shape never
\* leaves suspended shapes behind.
C26_BacklogOfCompositesEmptyAtGuard ==
    /\ \A i \in 1..Len(assignment_queue) :
          assignment_queue[i].kind \in {"Arrays", "Object"}
    /\ (pc = "next" /\ current_assignment_like.kind = "None") => assignment_queue = <<>>

\* a = a: the leaf pair has been yielded and signalled, and next is called again
\* with the current shape None.
C26_Witness ==
    /\ pc = "next"
    /\ current_assignment_like.kind = "None"
    /\ IsRoot("JsIdentifierAssignment", "JsIdentifierExpression")
    /\ Len(result) = 1

====
